---- MODULE Spec2Model ----
(***************************************************************************)
(* Transcriber: the job pipeline (lib/worker.py over lib/db.py) and the    *)
(* delivery outbox (lib/outbox.py) as state machines over one SQLite       *)
(* store.  Every store statement that commits on its own is one step; a    *)
(* BEGIN IMMEDIATE ... COMMIT transaction is one step.                      *)
(***************************************************************************)
EXTENDS Integers, Sequences, FiniteSets, TLC

\* ------------------------------------------------------------------ bounds
MaxJobs == 2          \* rows ever inserted into jobs
Concurrency == 2      \* WORKER_CONCURRENCY
MaxEvents == 2        \* jobs inserted plus process restarts explored
MaxMsgs == 2          \* rows ever inserted into outbox
SMTP_CONC == 2        \* MAIL_SMTP_CONCURRENCY
BURST == 1            \* MAIL_BURST
TickSec == 60         \* seconds the clock advances in one step
MaxTicks == 1         \* clock steps explored
MaxBurst == 10        \* largest bucket size a lone caller is tried with
MaxTakes == 12        \* take() calls of a lone caller
MaxSubmit == 2        \* submissions being handled at the same time
MaxAttempts == 10     \* largest attempts count of a row found at start-up
MaxLog == 7           \* a job whose log has this many entries is not mailed again
MaxFails == 1         \* times the Mailer raises for one message before it delivers

RATE_PER_MIN == 60
RETRY_BASE_SEC == 30
RETRY_MAX_SEC == 3600

NULL == "NULL"
NoJob == 0                            \* outbox.job_id IS NULL
Workers == 1..Concurrency
Senders == 1..SMTP_CONC
Addrs == {"a@x"}                      \* to_addr of enqueued mail
Fracs == {0, 50, 100}                 \* callback fraction, in percent
Errs == {"boom"}                      \* str(e) of a collaborator exception
RecList == <<"a@x", "b@x">>           \* recipients file contents, deduplicated
smtp_configured == TRUE               \* settings.smtp_host and smtp_sender
Submitters == 1..MaxSubmit            \* request threads of the two submit routes

\* text is a sequence of characters
DefaultName == <<"M", "y", " ", "T">>
Names ==
    {DefaultName,
     <<" ", "m", "y", "_", "_", "t", "!">>,
     <<"m", "y", "-", "t", " ", "2">>,
     <<"?">>}

VARIABLES
    stage,      \* "down" | "inited" | "workers" | "running": create_app progress
    crashes,    \* process restarts so far
    auto_send,  \* settings.auto_send_email
    jobs,       \* jobs table: id -> row
    nextJob,    \* AUTOINCREMENT of jobs
    files,      \* media files on disk: {<<job id, "up" | "dl">>}
    dirs,       \* directories under the data dir, by name
    req,        \* per request thread of a submit route: position and locals
    worker,     \* per worker thread: position and locals
    outbox,     \* outbox table: id -> row
    nextOut,    \* AUTOINCREMENT of outbox
    sender,     \* per sender thread: position and claimed item
    now,        \* clock, seconds
    bucket,     \* Mailer.bucket: [rate, burst, tokens (in 1/60 token), t]
    takes,      \* history: take() calls returned on this bucket, and how many TRUE
    calls,      \* history: outbox id -> times handed to the Mailer collaborator
    unlinked,   \* history: media files the pipeline unlinked
    mails,      \* history: <<job id, addr>> sent directly over SMTP by notify
    pool        \* Worker: [threads: live threads of _threads, lock: holder of _lock]

vars == <<stage, crashes, auto_send, jobs, nextJob, files, dirs, req, worker, outbox,
          nextOut, sender, now, bucket, takes, calls, unlinked, mails, pool>>

procVars == <<stage, crashes, auto_send, pool>>
mailVars == <<outbox, nextOut, sender, now, bucket, takes, calls>>

\* ------------------------------------------------------------------- store
IdleWorker ==
    [pc |-> "off", row |-> 0, rslug |-> <<>>, rmedia |-> NULL, hasUp |-> FALSE,
     final |-> NULL, frac |-> 0, last |-> FALSE, msg |-> "",
     prev |-> <<>>, ret |-> "", i |-> 0, exc |-> ""]

ClaimWorker == [IdleWorker EXCEPT !.pc = "claim"]

NoItem == [id |-> 0]
IdleSender == [pc |-> "off", item |-> NoItem, msg |-> "", v |-> 0, tn |-> 0]
ClaimSender == [IdleSender EXCEPT !.pc = "claim"]

\* INSERT INTO jobs: the columns a new row starts with
NewJob(name, slug, url, media, t) ==
    [name |-> name, slug |-> slug, status |-> "queued", progress |-> 0,
     log |-> <<>>, media_path |-> media, txt_path |-> NULL, error |-> NULL,
     url |-> url, updated_at |-> t]

\* update_job line 109: fields["updated_at"] = now_iso()
stamp(fields) == fields @@ [updated_at |-> now]

\* a faulty update: a missing row is inserted with the fields written
update_job_upsert(js, id, fields) ==
    IF id \in DOMAIN js THEN [js EXCEPT ![id] = stamp(fields) @@ @]
    ELSE (id :> (fields @@ NewJob(<<>>, <<>>, "", NULL, now))) @@ js

\* UPDATE jobs SET <fields> WHERE id=?  (no row: zero rows affected)
update_job(js, id, fields) ==
    IF id \in DOMAIN js THEN [js EXCEPT ![id] = stamp(fields) @@ @] ELSE js

\* a faulty claim predicate: it also admits rows already being processed
QueuedOrClaimed(js) ==
    {j \in DOMAIN js : js[j].status \in {"queued", "downloading"}}

\* SELECT ... WHERE status='queued' ORDER BY id ASC LIMIT 1
Queued(js) == {j \in DOMAIN js : js[j].status = "queued"}

\* a faulty order: the newest row first
MaxOf(S) == CHOOSE x \in S : \A y \in S : x >= y

\* ORDER BY id ASC LIMIT 1
MinOf(S) == CHOOSE x \in S : \A y \in S : x <= y

\* a faulty requeue: only downloading jobs are returned to queued
RequeueDownloading(js) ==
    [j \in DOMAIN js |->
        IF js[j].status = "downloading"
        THEN [js[j] EXCEPT !.status = "queued"]
        ELSE js[j]]

\* UPDATE jobs SET status='queued' WHERE status IN ('downloading','transcribing')
Requeue(js) ==
    [j \in DOMAIN js |->
        IF js[j].status \in {"downloading", "transcribing"}
        THEN [js[j] EXCEPT !.status = "queued"]
        ELSE js[j]]

IdleReq ==
    [pc |-> "idle", name |-> <<>>, slug |-> <<>>, need |-> 0, job |-> 0,
     i |-> 0, msg |-> "", prev |-> <<>>, ret |-> "", ctx |-> "", exc |-> ""]

\* Worker.__init__: no thread, the lock free
NoPool == [threads |-> 0, lock |-> 0]

\* ------------------------------------------------------- process lifecycle
\* a faulty start-up: rows left in sending are returned to queued
migrate_requeue(ob) ==
    [o \in DOMAIN ob |->
        IF ob[o].status = "sending" THEN [ob[o] EXCEPT !.status = "queued"]
        ELSE ob[o]]

\* db_init on the outbox table: created if missing, or recreated with the
\* foreign key and every row copied over column by column
migrate_outbox(ob) == [o \in DOMAIN ob |-> ob[o]]

db_init ==
    /\ stage = "down"
    /\ stage' = "inited"
    /\ jobs' = Requeue(jobs)
    /\ outbox' = migrate_outbox(outbox)
    /\ UNCHANGED <<crashes, auto_send, nextJob, files, dirs, req, worker,
                   nextOut, sender, now, bucket, takes, calls, unlinked, mails,
                   pool>>

\* a faulty ensure: it does not wait for the lock
AcquireAlways(p) == TRUE

\* Worker.ensure line 38: with self._lock
Acquire(p) == p.lock = 0

\* lines 39-40: need = max(0, concurrency - live threads)
need(p) == IF Concurrency > p.threads THEN Concurrency - p.threads ELSE 0

\* lines 41-44: n threads started, each at the top of _loop
Started(wk, n) ==
    [w \in Workers |->
        IF /\ wk[w].pc = "off"
           /\ Cardinality({v \in Workers : v <= w /\ wk[v].pc = "off"}) <= n
        THEN ClaimWorker ELSE wk[w]]

\* Worker.ensure() in create_app, before any request thread exists: start the
\* missing threads
worker_ensure ==
    /\ stage = "inited"
    /\ Acquire(pool)
    /\ stage' = "workers"
    /\ worker' = Started(worker, need(pool))
    /\ pool' = [pool EXCEPT !.threads = @ + need(pool)]
    /\ UNCHANGED <<crashes, auto_send, jobs, nextJob, files, dirs, req,
                   mailVars, unlinked, mails>>

\* worker.ensure() on a request thread (routes/jobs.py lines 40 and 63):
\* enter the critical section
ensure_lock(r) ==
    /\ stage = "running"
    /\ req[r].pc = "idle"
    /\ Acquire(pool)
    /\ pool' = [pool EXCEPT !.lock = r]
    /\ req' = [req EXCEPT ![r] = [IdleReq EXCEPT !.pc = "ensure"]]
    /\ UNCHANGED <<stage, crashes, auto_send, jobs, nextJob, files, dirs,
                   worker, mailVars, unlinked, mails>>

\* lines 39-40: drop the dead threads, count the missing ones
ensure_count(r) ==
    /\ stage = "running"
    /\ req[r].pc = "ensure"
    /\ req' = [req EXCEPT ![r] = [@ EXCEPT !.pc = "ensure_start",
                                           !.need = need(pool)]]
    /\ UNCHANGED <<procVars, jobs, nextJob, files, dirs, worker, mailVars,
                   unlinked, mails>>

\* lines 41-44 and the end of the with block
ensure_start(r) ==
    /\ stage = "running"
    /\ req[r].pc = "ensure_start"
    /\ worker' = Started(worker, req[r].need)
    /\ pool' = [threads |-> pool.threads + req[r].need, lock |-> 0]
    /\ req' = [req EXCEPT ![r] = IdleReq]
    /\ UNCHANGED <<stage, crashes, auto_send, jobs, nextJob, files, dirs,
                   mailVars, unlinked, mails>>

\* db_conn raises in _claim_next_job (line 165), outside the try of _loop:
\* the exception leaves _loop and the thread ends
thread_dies(w) ==
    /\ stage = "running"
    /\ worker[w].pc = "claim"
    /\ worker' = [worker EXCEPT ![w] = IdleWorker]
    /\ pool' = [pool EXCEPT !.threads = @ - 1]
    /\ UNCHANGED <<stage, crashes, auto_send, jobs, nextJob, files, dirs, req,
                   mailVars, unlinked, mails>>

\* the process dies: threads and their locals vanish, the store stays
Crash ==
    /\ stage = "running"
    /\ (nextJob - 1) + crashes < MaxEvents
    /\ crashes' = crashes + 1
    /\ stage' = "down"
    /\ worker' = [w \in Workers |-> IdleWorker]
    /\ sender' = [s \in Senders |-> IdleSender]
    /\ req' = [r \in Submitters |-> IdleReq]
    /\ pool' = NoPool
    /\ UNCHANGED <<auto_send, jobs, nextJob, files, dirs, outbox, nextOut, now,
                   bucket, takes, calls, unlinked, mails>>

\* ------------------------------------------------------------------ routes
\* str.lower() on the letters in use
lower(c) == IF c = "M" THEN "m" ELSE IF c = "T" THEN "t" ELSE c

\* \w : letters, digits and the underscore
WordChars == {"m", "y", "t", "j", "o", "b", "_",
              "0", "1", "2", "3", "4", "5", "6", "7", "8", "9"}
\* \s, and the class [\s_-]
SpaceChars == {" "}
SepChars == SpaceChars \cup {"_", "-"}

RECURSIVE lstrip(_, _)
lstrip(s, cs) == IF s # <<>> /\ Head(s) \in cs THEN lstrip(Tail(s), cs) ELSE s

RECURSIVE rstrip(_, _)
rstrip(s, cs) ==
    IF s # <<>> /\ s[Len(s)] \in cs THEN rstrip(SubSeq(s, 1, Len(s) - 1), cs)
    ELSE s

\* re.sub(r"[\s_-]+", "-", s)
RECURSIVE collapse(_)
collapse(s) ==
    IF s = <<>> THEN <<>>
    ELSE IF Head(s) \in SepChars
         THEN <<"-">> \o collapse(lstrip(s, SepChars))
         ELSE <<Head(s)>> \o collapse(Tail(s))

\* utils.slugify
slugify(name) ==
    LET stripped == rstrip(lstrip(name, SpaceChars), SpaceChars)
        lowered == [i \in 1..Len(stripped) |-> lower(stripped[i])]
        kept == SelectSeq(lowered, LAMBDA c : c \in WordChars \cup SepChars)
        dashed == collapse(kept)
        trimmed == rstrip(lstrip(dashed, {"-"}), {"-"})
    IN IF trimmed = <<>> THEN <<"j", "o", "b">> ELSE trimmed

\* str(i) for i >= 0
RECURSIVE str(_)
str(i) ==
    LET digit == <<"0", "1", "2", "3", "4", "5", "6", "7", "8", "9">>
    IN IF i < 10 THEN <<digit[i + 1]>>
       ELSE str(i \div 10) \o <<digit[(i % 10) + 1]>>

\* SELECT 1 FROM jobs WHERE slug=?
exists_db(js, slug) == \E j \in DOMAIN js : js[j].slug = slug

\* ensure_unique_slug, the loop from candidate slug with next suffix i
RECURSIVE probe(_, _, _, _, _)
probe(js, ds, base_slug, slug, i) ==
    IF ~exists_db(js, slug) /\ slug \notin ds THEN slug
    ELSE probe(js, ds, base_slug, base_slug \o <<"-">> \o str(i), i + 1)

ensure_unique_slug(js, ds, base_slug) == probe(js, ds, base_slug, base_slug, 2)

\* a store without idx_jobs_slug_unique
no_unique_index(js, slug) == TRUE

\* idx_jobs_slug_unique lets the INSERT through
unique_index(js, slug) == ~exists_db(js, slug)

Room == nextJob <= MaxJobs /\ (nextJob - 1) + crashes < MaxEvents

\* POST /jobs with name n, up to the slug (lines 44-54)
create_job(r, n) ==
    /\ stage = "running"
    /\ req[r].pc = "idle"
    /\ Room
    /\ req' = [req EXCEPT ![r] =
          [IdleReq EXCEPT !.pc = "create", !.name = n,
                          !.slug = ensure_unique_slug(jobs, dirs, slugify(n))]]
    /\ UNCHANGED <<procVars, jobs, nextJob, files, dirs, worker, mailVars,
                   unlinked, mails>>

\* lines 55-64: the INSERT, then the job's directory; an INSERT the unique
\* index refuses raises out of the handler
create_job_insert(r) ==
    /\ stage = "running"
    /\ req[r].pc = "create"
    /\ req' = [req EXCEPT ![r] = IdleReq]
    /\ IF unique_index(jobs, req[r].slug)
       THEN /\ Room
            /\ jobs' = (nextJob :> NewJob(req[r].name, req[r].slug, "u", NULL, now))
                          @@ jobs
            /\ nextJob' = nextJob + 1
            /\ dirs' = dirs \cup {req[r].slug}
       ELSE UNCHANGED <<jobs, nextJob, dirs>>
    /\ UNCHANGED <<procVars, files, worker, mailVars, unlinked, mails>>

\* POST /upload with name n, up to the saved file (lines 14-28)
upload_job(r, n) ==
    /\ stage = "running"
    /\ req[r].pc = "idle"
    /\ Room
    /\ LET slug == ensure_unique_slug(jobs, dirs, slugify(n)) IN
        /\ req' = [req EXCEPT ![r] = [IdleReq EXCEPT !.pc = "upload", !.name = n,
                                                 !.slug = slug]]
        /\ dirs' = dirs \cup {slug}
    /\ UNCHANGED <<procVars, jobs, nextJob, files, worker, mailVars,
                   unlinked, mails>>

\* lines 30-41: the INSERT of the uploaded job
upload_job_insert(r) ==
    /\ stage = "running"
    /\ req[r].pc = "upload"
    /\ req' = [req EXCEPT ![r] = IdleReq]
    /\ IF unique_index(jobs, req[r].slug)
       THEN /\ Room
            /\ files' = files \cup {<<nextJob, "up">>}
            /\ jobs' = (nextJob :> NewJob(req[r].name, req[r].slug, "", "up", now))
                          @@ jobs
            /\ nextJob' = nextJob + 1
       ELSE UNCHANGED <<jobs, nextJob, files>>
    /\ UNCHANGED <<procVars, dirs, worker, mailVars, unlinked, mails>>

\* POST /jobs/<id>/delete: unlink the row's files, remove the job's directory
\* if that leaves it empty, DELETE the row.  The routes
\* connect through lib.core.db_conn, which does not enable foreign keys.
RouteForeignKeys == FALSE

Cascade(ob, j) ==
    IF RouteForeignKeys
    THEN [o \in {x \in DOMAIN ob : ob[x].job_id # j} |-> ob[o]]
    ELSE ob

delete_job(j) ==
    /\ stage = "running"
    /\ j \in DOMAIN jobs
    /\ files' = files \ {<<j, jobs[j].media_path>>}
    /\ dirs' = IF \E f \in files' : f[1] = j
               THEN dirs \cup {jobs[j].slug}
               ELSE dirs \ {jobs[j].slug}
    /\ jobs' = [k \in DOMAIN jobs \ {j} |-> jobs[k]]
    /\ outbox' = Cascade(outbox, j)
    /\ UNCHANGED <<procVars, nextJob, req, worker, nextOut, sender, now, bucket,
                   takes, calls, unlinked, mails>>

\* the external writer of the cancellation flag
external_cancel(j) ==
    /\ stage = "running"
    /\ j \in DOMAIN jobs
    /\ jobs[j].status \in {"queued", "downloading", "transcribing"}
    /\ jobs' = update_job(jobs, j, [status |-> "canceled"])
    /\ UNCHANGED <<procVars, nextJob, files, dirs, req, worker, mailVars,
                   unlinked, mails>>

\* log_cb(m) or append_log(con, job_id, m) on the request thread, called from
\* ctx (the try of the recipients loop, its except handler, elsewhere in
\* notify_recipients, or the route's except handler), then continue at r
ReqLog(q, m, r, ctx) ==
    [q EXCEPT !.pc = "sm_log_rd", !.msg = m, !.ret = r, !.ctx = ctx]

\* back at r after an append_log; "idle" is the redirect that ends the handler
ReqReturn(q) ==
    IF q.ret = "idle" THEN IdleReq
    ELSE [q EXCEPT !.pc = q.ret, !.msg = "", !.prev = <<>>, !.ret = "",
                   !.ctx = ""]

\* lib.core.append_log line 79 on a missing row: fetchone() is None and the
\* tuple assignment raises TypeError.  In the try of the recipients loop the
\* loop's handler logs the failure with log_cb; from that handler and from
\* the rest of notify_recipients the exception reaches the route's handler,
\* which calls append_log itself; from there it leaves the route.
MissingRowRaises(q) ==
    LET x == [q EXCEPT !.exc = "TypeError"] IN
    IF q.ctx = "try" THEN ReqLog(x, "email failed", q.ret, "handler")
    ELSE IF q.ctx \in {"handler", "notify"}
         THEN ReqLog(x, "manual send error", "idle", "route")
         ELSE [IdleReq EXCEPT !.exc = "TypeError"]

\* POST /jobs/<id>/sendmail lines 119-124 and notify_recipients up to its
\* loop; a missing or unfinished job ends the request with 404 or 400
send_mail(r, j) ==
    /\ stage = "running"
    /\ req[r].pc = "idle"
    /\ j \in DOMAIN jobs
    /\ jobs[j].status = "done" /\ jobs[j].txt_path # NULL
    /\ Len(jobs[j].log) < MaxLog
    /\ LET q == [IdleReq EXCEPT !.job = j] IN
       req' = [req EXCEPT ![r] =
          IF Len(RecList) = 0 THEN ReqLog(q, "no recipients", "idle", "notify")
          ELSE IF ~smtp_configured
               THEN ReqLog(q, "smtp not configured", "idle", "notify")
               ELSE [q EXCEPT !.pc = "sm_send", !.i = 1]]
    /\ UNCHANGED <<procVars, jobs, nextJob, files, dirs, worker, mailVars,
                   unlinked, mails>>

\* notify_recipients, one iteration on the request thread
sm_send(r, sent) ==
    /\ stage = "running"
    /\ req[r].pc = "sm_send"
    /\ mails' = IF sent THEN mails \cup {<<req[r].job, RecList[req[r].i]>>}
                ELSE mails
    /\ req' = [req EXCEPT ![r] =
          ReqLog([req[r] EXCEPT !.i = req[r].i + 1],
                 IF sent THEN "email sent" ELSE "email failed",
                 IF req[r].i < Len(RecList) THEN "sm_send" ELSE "sm_sum",
                 IF sent THEN "try" ELSE "handler")]
    /\ UNCHANGED <<procVars, jobs, nextJob, files, dirs, worker, mailVars,
                   unlinked>>

\* notify_recipients line 197
sm_summary(r) ==
    /\ stage = "running"
    /\ req[r].pc = "sm_sum"
    /\ req' = [req EXCEPT ![r] = ReqLog(req[r], "email summary", "idle", "notify")]
    /\ UNCHANGED <<procVars, jobs, nextJob, files, dirs, worker, mailVars,
                   unlinked, mails>>

\* lib.core.append_log line 79: SELECT log
sm_log_read(r) ==
    /\ stage = "running"
    /\ req[r].pc = "sm_log_rd"
    /\ req' = [req EXCEPT ![r] =
          IF req[r].job \in DOMAIN jobs
          THEN [req[r] EXCEPT !.pc = "sm_log_wr", !.prev = jobs[req[r].job].log]
          ELSE MissingRowRaises(req[r])]
    /\ UNCHANGED <<procVars, jobs, nextJob, files, dirs, worker, mailVars,
                   unlinked, mails>>

\* lib.core.append_log lines 80-81: update_job(log=prev + msg)
sm_log_write(r) ==
    /\ stage = "running"
    /\ req[r].pc = "sm_log_wr"
    /\ jobs' = update_job(jobs, req[r].job,
                          [log |-> Append(req[r].prev, req[r].msg)])
    /\ req' = [req EXCEPT ![r] = ReqReturn(req[r])]
    /\ UNCHANGED <<procVars, nextJob, files, dirs, worker, mailVars,
                   unlinked, mails>>

\* ------------------------------------------------------------------ worker
\* self._log(job_id, m), then continue at r
Log(wr, m, r) == [wr EXCEPT !.pc = "log_rd", !.msg = m, !.ret = r]

\* an exception x is raised: its handler logs m, then control is at r
Raise(wr, x, m, r) == Log([wr EXCEPT !.exc = x], m, r)

\* a faulty failure write: the message is recorded, the status is not
FailFieldsNoStatus(e) == [error |-> e]

\* a faulty failure write: the job is queued again with the message
FailFieldsRetry(e) == [status |-> "queued", error |-> e]

\* the fields written when a collaborator raises e (lines 94 and 134)
FailFields(e) == [status |-> "error", error |-> e]

\* back at r after a _log; "claim" is the top of Worker._loop
Return(wr) ==
    IF wr.ret = "claim" THEN ClaimWorker
    ELSE [wr EXCEPT !.pc = wr.ret, !.msg = "", !.prev = <<>>, !.ret = ""]

\* a faulty checkpoint: the status is taken from the row as claimed (queued),
\* not re-read
abort_check_cached(js, wr) == wr.row \notin DOMAIN js

\* a faulty checkpoint: it also aborts a job that is still downloading
abort_check_eager(js, wr) ==
    \/ wr.row \notin DOMAIN js
    \/ js[wr.row].status \in {"canceled", "downloading"}

\* Worker._abort_check: a fresh SELECT status
abort_check(js, wr) ==
    \/ wr.row \notin DOMAIN js
    \/ js[wr.row].status \in {"canceled"}

WorkerFrame == UNCHANGED <<procVars, nextJob, req, mailVars>>

claim_next_job(w) ==
    /\ worker[w].pc = "claim"
    /\ Queued(jobs) # {}
    /\ LET j == MinOf(Queued(jobs)) IN
        /\ jobs' = [jobs EXCEPT ![j].status = "downloading"]
        /\ worker' = [worker EXCEPT ![w] =
              Log([ClaimWorker EXCEPT !.row = j, !.rslug = jobs[j].slug,
                                      !.rmedia = jobs[j].media_path],
                  "claimed", "reset")]
    /\ UNCHANGED <<dirs, files, unlinked, mails>>
    /\ WorkerFrame

\* append_log, first half: SELECT log (missing row: return)
log_read(w) ==
    /\ worker[w].pc = "log_rd"
    /\ worker' = [worker EXCEPT ![w] =
          IF worker[w].row \in DOMAIN jobs
          THEN [worker[w] EXCEPT !.pc = "log_wr", !.prev = jobs[worker[w].row].log]
          ELSE Return(worker[w])]
    /\ UNCHANGED <<dirs, jobs, files, unlinked, mails>>
    /\ WorkerFrame

\* append_log, second half: update_job(log=prev + msg)
log_write(w) ==
    /\ worker[w].pc = "log_wr"
    /\ jobs' = update_job(jobs, worker[w].row,
                          [log |-> Append(worker[w].prev, worker[w].msg)])
    /\ worker' = [worker EXCEPT ![w] = Return(worker[w])]
    /\ UNCHANGED <<dirs, files, unlinked, mails>>
    /\ WorkerFrame

\* _process_job lines 71-86: progress=0, then resolve the media source
reset_progress(w) ==
    /\ worker[w].pc = "reset"
    /\ jobs' = update_job(jobs, worker[w].row, [progress |-> 0])
    /\ dirs' = dirs \cup {worker[w].rslug}
    /\ LET up == /\ worker[w].rmedia # NULL
                 /\ <<worker[w].row, worker[w].rmedia>> \in files
       IN worker' = [worker EXCEPT ![w] =
            IF up THEN [worker[w] EXCEPT !.pc = "up_check", !.hasUp = TRUE]
            ELSE Log([worker[w] EXCEPT !.hasUp = FALSE], "starting download", "dl")]
    /\ UNCHANGED <<files, unlinked, mails>>
    /\ WorkerFrame

\* line 81; JobAborted here leaves _process_job and is logged by _loop
up_check(w) ==
    /\ worker[w].pc = "up_check"
    /\ worker' = [worker EXCEPT ![w] =
          IF abort_check(jobs, worker[w])
          THEN Raise(worker[w], "JobAborted", "unexpected error", "claim")
          ELSE [worker[w] EXCEPT !.pc = "up_set"]]
    /\ UNCHANGED <<dirs, jobs, files, unlinked, mails>>
    /\ WorkerFrame

\* line 82-84
up_set(w) ==
    /\ worker[w].pc = "up_set"
    /\ jobs' = update_job(jobs, worker[w].row,
                  [status |-> "transcribing", media_path |-> worker[w].rmedia])
    /\ worker' = [worker EXCEPT ![w] =
          Log([worker[w] EXCEPT !.final = worker[w].rmedia],
              "using uploaded media", "tr")]
    /\ UNCHANGED <<dirs, files, unlinked, mails>>
    /\ WorkerFrame

\* the Downloader reports fraction f: dl_cb, first half, the checkpoint
dl_check(w, f) ==
    /\ worker[w].pc = "dl"
    /\ worker' = [worker EXCEPT ![w] =
          IF abort_check(jobs, worker[w])
          THEN Raise(worker[w], "JobAborted", "aborted during download", "loop_exc")
          ELSE [worker[w] EXCEPT !.pc = "dl_write", !.frac = f]]
    /\ UNCHANGED <<dirs, jobs, files, unlinked, mails>>
    /\ WorkerFrame

\* dl_cb, second half: update_job(progress=frac * 50)
dl_write(w) ==
    /\ worker[w].pc = "dl_write"
    /\ jobs' = update_job(jobs, worker[w].row,
                          [progress |-> (worker[w].frac * 50) \div 100])
    /\ worker' = [worker EXCEPT ![w] = [worker[w] EXCEPT !.pc = "dl", !.frac = 0]]
    /\ UNCHANGED <<dirs, files, unlinked, mails>>
    /\ WorkerFrame

\* the Downloader returns the media file; lines 127-129
dl_ok(w) ==
    /\ worker[w].pc = "dl"
    /\ files' = files \cup {<<worker[w].row, "dl">>}
    /\ jobs' = update_job(jobs, worker[w].row,
                          [status |-> "transcribing", media_path |-> "dl"])
    /\ worker' = [worker EXCEPT ![w] =
          Log([worker[w] EXCEPT !.final = "dl"], "download ok", "tr")]
    /\ UNCHANGED <<dirs, unlinked, mails>>
    /\ WorkerFrame

\* the Downloader raises; lines 133-136
dl_fail(w, e) ==
    /\ worker[w].pc = "dl"
    /\ jobs' = update_job(jobs, worker[w].row, FailFields(e))
    /\ worker' = [worker EXCEPT ![w] = Raise(worker[w], e, "download error", "loop_exc")]
    /\ UNCHANGED <<dirs, files, unlinked, mails>>
    /\ WorkerFrame

\* a faulty loop: the exception leaves _loop and the thread ends
Uncaught(wr) == IdleWorker

\* _loop lines 56-61: the handler logs and the loop goes on
Caught(wr) == Log(wr, "unexpected error", "claim")

\* _loop lines 56-61: an exception left _process_job
loop_except(w) ==
    /\ worker[w].pc = "loop_exc"
    /\ worker' = [worker EXCEPT ![w] = Caught(worker[w])]
    /\ UNCHANGED <<dirs, jobs, files, unlinked, mails>>
    /\ WorkerFrame

\* the Transcriber reports fraction f (last: its closing progress_cb(1.0)):
\* tr_cb, first half; lines 90-92 on JobAborted
tr_check(w, f, last) ==
    /\ worker[w].pc = "tr"
    /\ last => f = 100
    /\ worker' = [worker EXCEPT ![w] =
          IF abort_check(jobs, worker[w])
          THEN Raise(worker[w], "JobAborted", "aborted during transcription", "claim")
          ELSE [worker[w] EXCEPT !.pc = "tr_write", !.frac = f, !.last = last]]
    /\ UNCHANGED <<dirs, jobs, files, unlinked, mails>>
    /\ WorkerFrame

\* tr_cb, second half: update_job(progress=50 + frac * 50)
tr_write(w) ==
    /\ worker[w].pc = "tr_write"
    /\ jobs' = update_job(jobs, worker[w].row,
                          [progress |-> 50 + (worker[w].frac * 50) \div 100])
    /\ worker' = [worker EXCEPT ![w] =
          IF worker[w].last
          THEN Log([worker[w] EXCEPT !.frac = 0], "transcription completed",
                   IF worker[w].hasUp THEN "set_done" ELSE "unlink")
          ELSE [worker[w] EXCEPT !.pc = "tr", !.frac = 0]]
    /\ UNCHANGED <<dirs, files, unlinked, mails>>
    /\ WorkerFrame

\* the Transcriber raises; lines 93-96
tr_fail(w, e) ==
    /\ worker[w].pc = "tr"
    /\ jobs' = update_job(jobs, worker[w].row, FailFields(e))
    /\ worker' = [worker EXCEPT ![w] = Raise(worker[w], e, "transcription error", "claim")]
    /\ UNCHANGED <<dirs, files, unlinked, mails>>
    /\ WorkerFrame

\* lines 98-102
unlink_media(w) ==
    /\ worker[w].pc = "unlink"
    /\ ~worker[w].hasUp
    /\ files' = files \ {<<worker[w].row, worker[w].final>>}
    /\ unlinked' = unlinked \cup ({<<worker[w].row, worker[w].final>>} \cap files)
    /\ worker' = [worker EXCEPT ![w] = [worker[w] EXCEPT !.pc = "set_done"]]
    /\ UNCHANGED <<dirs, jobs, mails>>
    /\ WorkerFrame

\* lines 104-110
set_done(w) ==
    /\ worker[w].pc = "set_done"
    /\ jobs' = update_job(jobs, worker[w].row,
          [status |-> "done", txt_path |-> "txt",
           media_path |-> IF worker[w].hasUp THEN worker[w].final ELSE NULL,
           progress |-> 100])
    /\ worker' = [worker EXCEPT ![w] = Log(worker[w], "transcription done", "notify")]
    /\ UNCHANGED <<dirs, files, unlinked, mails>>
    /\ WorkerFrame

\* _maybe_notify, and notify_recipients up to its loop
maybe_notify(w) ==
    /\ worker[w].pc = "notify"
    /\ worker' = [worker EXCEPT ![w] =
          IF ~auto_send THEN Log(worker[w], "auto-send disabled", "claim")
          ELSE IF Len(RecList) = 0 THEN Log(worker[w], "no recipients", "claim")
          ELSE IF ~smtp_configured THEN Log(worker[w], "smtp not configured", "claim")
          ELSE [worker[w] EXCEPT !.pc = "nr_send", !.i = 1]]
    /\ UNCHANGED <<dirs, jobs, files, unlinked, mails>>
    /\ WorkerFrame

\* notify_recipients, one iteration: send_email over SMTP, then log_cb
nr_send(w, sent) ==
    /\ worker[w].pc = "nr_send"
    /\ mails' = IF sent THEN mails \cup {<<worker[w].row, RecList[worker[w].i]>>}
                ELSE mails
    /\ worker' = [worker EXCEPT ![w] =
          Log([worker[w] EXCEPT !.i = worker[w].i + 1],
              IF sent THEN "email sent" ELSE "email failed",
              IF worker[w].i < Len(RecList) THEN "nr_send" ELSE "nr_sum")]
    /\ UNCHANGED <<dirs, jobs, files, unlinked>>
    /\ WorkerFrame

nr_summary(w) ==
    /\ worker[w].pc = "nr_sum"
    /\ worker' = [worker EXCEPT ![w] = Log(worker[w], "email summary", "claim")]
    /\ UNCHANGED <<dirs, jobs, files, unlinked, mails>>
    /\ WorkerFrame


\* ------------------------------------------------------------------ outbox
Min(a, b) == IF a <= b THEN a ELSE b
Max(a, b) == IF a >= b THEN a ELSE b

RECURSIVE Pow2(_)
Pow2(n) == IF n = 0 THEN 1 ELSE 2 * Pow2(n - 1)

\* before Mailer.__init__ there is no bucket
NoBucket == [rate |-> 0, burst |-> 0, tokens |-> 0, t |-> 0]
NoTakes == [n |-> 0, yes |-> 0]

\* TokenBucket.__init__ at monotonic time t.  Tokens are counted in 1/60 of a
\* token, so that rate (tokens a second) is rate_per_min units a second.
TokenBucket(rate_per_min, burst, t) ==
    [rate |-> Max(1, rate_per_min), burst |-> Max(1, burst),
     tokens |-> 60 * Max(1, burst), t |-> t]

\* a faulty refill: the bucket size does not cap it
refill_uncapped(b, t) == b.tokens + (t - b.t) * b.rate

\* line 37, right-hand side: min(burst, tokens + (now - t) * rate)
refill(b, t) == Min(60 * b.burst, b.tokens + (t - b.t) * b.rate)

\* lines 37-38, the two assignments
store(b, v, t) == [b EXCEPT !.tokens = v, !.t = t]

\* line 40: self.tokens -= 1.0
consume(b) == [b EXCEPT !.tokens = @ - 60]

\* TokenBucket.take by a caller nobody interleaves with, at monotonic time t:
\* <<bucket after, permitted>>
take(b, t) ==
    LET b1 == store(b, refill(b, t), t)
    IN IF b1.tokens >= 60 THEN <<consume(b1), TRUE>> ELSE <<b1, FALSE>>

\* the history after a take() that returned r
Returned(tk, r) == [n |-> tk.n + 1, yes |-> tk.yes + (IF r THEN 1 ELSE 0)]

\* Mailer.__init__ and Mailer.ensure()
mailer_ensure ==
    /\ stage = "workers"
    /\ stage' = "running"
    /\ bucket' = TokenBucket(RATE_PER_MIN, BURST, now)
    /\ takes' = NoTakes
    /\ sender' = [s \in Senders |->
                    IF sender[s].pc = "off" THEN ClaimSender ELSE sender[s]]
    /\ UNCHANGED <<crashes, auto_send, jobs, nextJob, files, dirs, req, worker,
                   outbox, nextOut, now, calls, unlinked, mails, pool>>

\* the clock advances by d seconds
Tick(d) ==
    /\ now + d <= MaxTicks * TickSec
    /\ now' = now + d
    /\ UNCHANGED <<procVars, jobs, nextJob, files, dirs, req, worker, outbox,
                   nextOut, sender, bucket, takes, calls, unlinked, mails>>

\* one take() by the only caller of a bucket
bucket_call ==
    /\ takes.n < MaxTakes
    /\ LET r == take(bucket, now) IN
        /\ bucket' = r[1]
        /\ takes' = Returned(takes, r[2])
    /\ UNCHANGED <<procVars, jobs, nextJob, files, dirs, req, worker, outbox,
                   nextOut, sender, now, calls, unlinked, mails>>

\* a faulty insert: a message equal to one already in the table is dropped
insert_outbox_dedup(ob, id, row) ==
    IF \E o \in DOMAIN ob : ob[o] = row THEN ob ELSE (id :> row) @@ ob

\* INSERT INTO outbox ... VALUES (...), the id from AUTOINCREMENT
insert_outbox(ob, id, row) == (id :> row) @@ ob

\* enqueue_email; the foreign key admits only an existing job or NULL
enqueue_email(job, to) ==
    /\ stage = "running"
    /\ nextOut <= MaxMsgs
    /\ job = NoJob \/ job \in DOMAIN jobs
    /\ outbox' = insert_outbox(outbox, nextOut,
          [job_id |-> job, to_addr |-> to, status |-> "queued", attempts |-> 0,
           last_error |-> NULL, send_after |-> now])
    /\ calls' = (nextOut :> 0) @@ calls
    /\ nextOut' = nextOut + 1
    /\ UNCHANGED <<procVars, jobs, nextJob, files, dirs, req, worker, sender,
                   now, bucket, takes, unlinked, mails>>

\* a faulty claim predicate: it also admits rows being sent
ReadyOrSending(ob, t) ==
    {o \in DOMAIN ob : ob[o].status \in {"queued", "sending"}
                        /\ ob[o].send_after <= t}

\* a faulty claim predicate: it does not look at send_after
ReadyAnyTime(ob, t) == {o \in DOMAIN ob : ob[o].status = "queued"}

\* a faulty claim predicate: a row that was attempted is not taken again
ReadyUntried(ob, t) ==
    {o \in DOMAIN ob : ob[o].status = "queued" /\ ob[o].send_after <= t
                        /\ ob[o].attempts = 0 /\ ob[o].last_error = NULL}

\* a faulty claim predicate: it also admits rows already sent
ReadyOrSent(ob, t) ==
    {o \in DOMAIN ob : ob[o].status \in {"queued", "sent"}
                        /\ ob[o].send_after <= t}

\* WHERE status='queued' AND send_after <= now
Ready(ob, t) ==
    {o \in DOMAIN ob : ob[o].status = "queued" /\ ob[o].send_after <= t}

\* UPDATE outbox SET <fields> WHERE id=?
update_outbox(ob, id, fields) ==
    IF id \in DOMAIN ob THEN [ob EXCEPT ![id] = fields @@ @] ELSE ob

\* append_log inside a sender transaction
append_log(js, id, line) ==
    IF id \in DOMAIN js THEN update_job(js, id, [log |-> Append(js[id].log, line)])
    ELSE js

SenderFrame == UNCHANGED <<procVars, nextJob, files, dirs, req, worker,
                           nextOut, now, unlinked, mails>>

\* Mailer._claim
claim(s) ==
    /\ sender[s].pc = "claim"
    /\ Ready(outbox, now) # {}
    /\ LET o == MinOf(Ready(outbox, now)) IN
        /\ outbox' = [outbox EXCEPT ![o].status = "sending"]
        /\ sender' = [sender EXCEPT ![s] =
              [ClaimSender EXCEPT !.pc = "take", !.item = [id |-> o] @@ outbox[o]]]
    /\ UNCHANGED <<jobs, bucket, takes, calls>>
    /\ SenderFrame

\* _loop line 168, self.bucket.take(): the threads share the bucket and no
\* lock is held, so another thread may run between the steps of one call.
\* First the clock and the right-hand side of line 37 are evaluated.
take_refill(s) ==
    /\ sender[s].pc = "take"
    /\ sender' = [sender EXCEPT ![s].pc = "take_st",
                                ![s].v = refill(bucket, now),
                                ![s].tn = now]
    /\ UNCHANGED <<jobs, outbox, bucket, takes, calls>>
    /\ SenderFrame

\* lines 37-39: the assignments and the test; a denied call returns here
take_store(s) ==
    /\ sender[s].pc = "take_st"
    /\ bucket' = store(bucket, sender[s].v, sender[s].tn)
    /\ IF bucket'.tokens >= 60
       THEN /\ sender' = [sender EXCEPT ![s].pc = "take_dec",
                                        ![s].v = 0, ![s].tn = 0]
            /\ takes' = takes
       ELSE /\ sender' = [sender EXCEPT ![s].pc = "defer",
                                        ![s].v = 0, ![s].tn = 0]
            /\ takes' = Returned(takes, FALSE)
    /\ UNCHANGED <<jobs, outbox, calls>>
    /\ SenderFrame

\* lines 40-41: a permitted call takes its token and returns
take_consume(s) ==
    /\ sender[s].pc = "take_dec"
    /\ bucket' = consume(bucket)
    /\ takes' = Returned(takes, TRUE)
    /\ sender' = [sender EXCEPT ![s].pc = "send"]
    /\ UNCHANGED <<jobs, outbox, calls>>
    /\ SenderFrame

\* the retry delay before jitter (line 116)
Delay(attempts) ==
    Min(RETRY_MAX_SEC, RETRY_BASE_SEC * Pow2(Min(attempts, 8)))

\* a faulty jitter: up to twice the delay either way
JittersWide(delay) == {0 - 2 * delay, 0, 2 * delay}

\* delay * 0.2 * (random() - 0.5), to the second
Jitters(delay) == {0 - (delay \div 10), 0, delay \div 10}

\* a faulty truncation: the text is stored whole
truncate_none(msg, n) == msg

\* msg[:n]
truncate(msg, n) == IF Len(msg) <= n THEN msg ELSE SubSeq(msg, 1, n)

\* a faulty requeue: after five attempts the row is given up as error
FailStatusCapped(attempts) == IF attempts > 5 THEN "error" ELSE "queued"

\* a faulty requeue: the row is left as the claim made it
FailStatusStuck(attempts) == "sending"

\* the status _fail writes (line 127), whatever the attempts
FailStatus(attempts) == "queued"

\* Mailer._fail with jitter jit
fail(s, msg, attempts, jit) ==
    LET item == sender[s].item IN
    /\ outbox' = update_outbox(outbox, item.id,
          [status |-> FailStatus(attempts), attempts |-> attempts,
           last_error |-> truncate(msg, 500),
           send_after |-> now + Delay(attempts) + jit])
    /\ jobs' = IF item.job_id # NoJob
               THEN append_log(jobs, item.job_id, "email failed")
               ELSE jobs
    /\ sender' = [sender EXCEPT ![s] = ClaimSender]

\* a faulty defer: it counts as a failed attempt
DeferAttemptsBumped(item) == item.attempts + 1

\* the attempts a rate-limit defer passes to _fail (line 170)
DeferAttempts(item) == item.attempts

\* _loop lines 169-171: the bucket denied
defer(s) ==
    /\ sender[s].pc = "defer"
    /\ \E jit \in Jitters(Delay(DeferAttempts(sender[s].item))) :
          fail(s, "rate-limit defer", DeferAttempts(sender[s].item), jit)
    /\ UNCHANGED <<bucket, takes, calls>>
    /\ SenderFrame

\* _loop lines 173-182: send_email returns (e = NULL) or raises e
send_email(s, e) ==
    /\ sender[s].pc = "send"
    /\ calls' = [calls EXCEPT ![sender[s].item.id] = @ + 1]
    /\ sender' = [sender EXCEPT ![s].pc = IF e = NULL THEN "ok" ELSE "fail",
                                ![s].msg = IF e = NULL THEN "" ELSE e]
    /\ UNCHANGED <<jobs, outbox, bucket, takes>>
    /\ SenderFrame

\* a faulty success write: it also clears the recorded error
OkFieldsClear == [status |-> "sent", last_error |-> NULL]

\* the columns Mailer._ok sets (line 148)
OkFields == [status |-> "sent"]

\* Mailer._ok
ok(s) ==
    /\ sender[s].pc = "ok"
    /\ LET item == sender[s].item IN
        /\ outbox' = update_outbox(outbox, item.id, OkFields)
        /\ jobs' = IF item.job_id # NoJob
                   THEN append_log(jobs, item.job_id, "email sent")
                   ELSE jobs
    /\ sender' = [sender EXCEPT ![s] = ClaimSender]
    /\ UNCHANGED <<bucket, takes, calls>>
    /\ SenderFrame

\* a faulty failure count: the attempts are passed on as they were
FailAttemptsStale(item) == item.attempts

\* the attempts a failed send passes to _fail (line 186)
FailAttempts(item) == item.attempts + 1

\* _loop lines 184-186: the Mailer raised
send_failed(s) ==
    /\ sender[s].pc = "fail"
    /\ \E jit \in Jitters(Delay(FailAttempts(sender[s].item))) :
          fail(s, sender[s].msg, FailAttempts(sender[s].item), jit)
    /\ UNCHANGED <<bucket, takes, calls>>
    /\ SenderFrame

\* ----------------------------------------------------------- specification
Init ==
    /\ stage = "down"
    /\ crashes = 0
    /\ auto_send \in BOOLEAN
    /\ jobs = <<>>
    /\ nextJob = 1
    /\ files = {}
    /\ dirs = {}
    /\ req = [r \in Submitters |-> IdleReq]
    /\ pool = NoPool
    /\ worker = [w \in Workers |-> IdleWorker]
    /\ outbox = <<>>
    /\ nextOut = 1
    /\ sender = [s \in Senders |-> IdleSender]
    /\ now = 0
    /\ bucket = NoBucket
    /\ takes = NoTakes
    /\ calls = <<>>
    /\ unlinked = {}
    /\ mails = {}

WorkerStep(w) ==
    \/ claim_next_job(w)
    \/ log_read(w)
    \/ log_write(w)
    \/ reset_progress(w)
    \/ up_check(w)
    \/ up_set(w)
    \/ \E f \in Fracs : dl_check(w, f)
    \/ dl_write(w)
    \/ dl_ok(w)
    \/ \E e \in Errs : dl_fail(w, e)
    \/ loop_except(w)
    \/ \E f \in Fracs, last \in BOOLEAN : tr_check(w, f, last)
    \/ tr_write(w)
    \/ \E e \in Errs : tr_fail(w, e)
    \/ unlink_media(w)
    \/ set_done(w)
    \/ maybe_notify(w)
    \/ \E sent \in BOOLEAN : nr_send(w, sent)
    \/ nr_summary(w)

Next ==
    \/ db_init
    \/ worker_ensure
    \/ mailer_ensure
    \/ Crash
    \/ create_job(1, DefaultName)
    \/ create_job_insert(1)
    \/ upload_job(1, DefaultName)
    \/ upload_job_insert(1)
    \/ \E j \in 1..MaxJobs : delete_job(j)
    \/ \E j \in 1..MaxJobs : external_cancel(j)
    \/ \E w \in Workers : WorkerStep(w)

Spec == Init /\ [][Next]_vars

SenderStep(s) ==
    \/ claim(s)
    \/ take_refill(s)
    \/ take_store(s)
    \/ take_consume(s)
    \/ defer(s)
    \/ \E e \in Errs \cup {NULL} : send_email(s, e)
    \/ ok(s)
    \/ send_failed(s)

NextOutbox ==
    \/ db_init
    \/ worker_ensure
    \/ mailer_ensure
    \/ Crash
    \/ Tick(TickSec)
    \/ create_job(1, DefaultName)
    \/ create_job_insert(1)
    \/ \E j \in 1..MaxJobs : delete_job(j)
    \/ \E j \in (1..MaxJobs) \cup {NoJob}, to \in Addrs : enqueue_email(j, to)
    \/ \E s \in Senders : SenderStep(s)

SpecOutbox == Init /\ [][NextOutbox]_vars

\* str(e) of an exception of the Mailer: a short text and one of 512
\* characters
RECURSIVE Dbl(_, _)
Dbl(text, k) == IF k = 0 THEN text ELSE Dbl(text \o text, k - 1)
LongErr == Dbl("x", 9)
MailErrs == {"boom", LongErr}

\* a job an earlier run of the process fetched, transcribed and finished
DoneJob ==
    [NewJob(DefaultName, slugify(DefaultName), "u", NULL, 0) EXCEPT
        !.status = "done", !.progress = 100, !.txt_path = "txt",
        !.log = <<"claimed", "starting download", "download ok",
                  "transcription completed", "transcription done",
                  "auto-send disabled">>]

\* a queued row an earlier run left behind, a of its attempts having failed
StoredRow(job, a) ==
    [job_id |-> job, to_addr |-> "a@x", status |-> "queued", attempts |-> a,
     last_error |-> IF a = 0 THEN NULL ELSE "boom", send_after |-> 0]

\* start-up on a store an earlier run left: one finished job and two queued
\* messages, the first with any number of failed attempts behind it
InitRetry ==
    /\ stage = "down"
    /\ crashes = 0
    /\ auto_send = FALSE
    /\ jobs = <<DoneJob>>
    /\ nextJob = 2
    /\ files = {}
    /\ dirs = {DoneJob.slug}
    /\ req = [r \in Submitters |-> IdleReq]
    /\ pool = NoPool
    /\ worker = [w \in Workers |-> IdleWorker]
    /\ \E job \in {NoJob, 1}, a \in 0..MaxAttempts :
          /\ outbox = <<StoredRow(job, a), StoredRow(NoJob, 0)>>
          /\ calls = <<a, 0>>
    /\ nextOut = 3
    /\ sender = [s \in Senders |-> IdleSender]
    /\ now = 0
    /\ bucket = NoBucket
    /\ takes = NoTakes
    /\ unlinked = {}
    /\ mails = {}

RetryStep(s) ==
    \/ claim(s)
    \/ take_refill(s)
    \/ take_store(s)
    \/ take_consume(s)
    \/ defer(s)
    \/ \E e \in MailErrs \cup {NULL} : send_email(s, e)
    \/ ok(s)
    \/ send_failed(s)

NextRetry ==
    \/ db_init
    \/ worker_ensure
    \/ mailer_ensure
    \/ Tick(TickSec)
    \/ delete_job(1)
    \/ \E s \in Senders : RetryStep(s)

SpecRetry == InitRetry /\ [][NextRetry]_vars

\* the pipeline and the outbox side by side, auto-delivery off: one worker
\* thread and one sender thread get to run, on fetched jobs and on messages
\* without a job
InitLoops == Init /\ auto_send = FALSE

LoopStep(w) ==
    \/ claim_next_job(w)
    \/ log_read(w)
    \/ log_write(w)
    \/ reset_progress(w)
    \/ \E f \in Fracs : dl_check(w, f)
    \/ dl_write(w)
    \/ dl_ok(w)
    \/ \E e \in Errs : dl_fail(w, e)
    \/ loop_except(w)
    \/ \E f \in Fracs, last \in BOOLEAN : tr_check(w, f, last)
    \/ tr_write(w)
    \/ \E e \in Errs : tr_fail(w, e)
    \/ unlink_media(w)
    \/ set_done(w)
    \/ maybe_notify(w)

NextLoops ==
    \/ db_init
    \/ worker_ensure
    \/ mailer_ensure
    \/ Tick(TickSec)
    \/ create_job(1, DefaultName)
    \/ create_job_insert(1)
    \/ \E to \in Addrs : enqueue_email(NoJob, to)
    \/ LoopStep(1)
    \/ SenderStep(1)

SpecLoops == InitLoops /\ [][NextLoops]_vars

\* a bucket of any size up to MaxBurst, built at time 0 and used by one caller
InitBucket ==
    /\ stage = "down"
    /\ crashes = 0
    /\ auto_send = FALSE
    /\ jobs = <<>>
    /\ nextJob = 1
    /\ files = {}
    /\ dirs = {}
    /\ req = [r \in Submitters |-> IdleReq]
    /\ pool = NoPool
    /\ worker = [w \in Workers |-> IdleWorker]
    /\ outbox = <<>>
    /\ nextOut = 1
    /\ sender = [s \in Senders |-> IdleSender]
    /\ now = 0
    /\ \E burst \in 1..MaxBurst : bucket = TokenBucket(RATE_PER_MIN, burst, 0)
    /\ takes = NoTakes
    /\ calls = <<>>
    /\ unlinked = {}
    /\ mails = {}

NextBucket ==
    \/ bucket_call
    \/ Tick(1)

SpecBucket == InitBucket /\ [][NextBucket]_vars

\* the submit routes under concurrent requests, with removal and restarts
NextSlug ==
    \/ db_init
    \/ worker_ensure
    \/ mailer_ensure
    \/ Crash
    \/ \E r \in Submitters, n \in Names : create_job(r, n)
    \/ \E r \in Submitters : create_job_insert(r)
    \/ \E r \in Submitters, n \in Names : upload_job(r, n)
    \/ \E r \in Submitters : upload_job_insert(r)
    \/ \E j \in 1..MaxJobs : delete_job(j)

SpecSlug == Init /\ [][NextSlug]_vars

\* ------------------------------------------------------------------ claims
Active == {"downloading", "transcribing"}
Terminal == {"done", "error", "canceled"}

\* a step taken by worker thread w (every worker step moves its pc)
StepOf(w) == worker'[w] # worker[w] /\ stage' = stage

\* a step taken by some worker thread
PipelineStep == \E w \in Workers : StepOf(w)

\* C1: a worker that receives a row is the one whose update flipped it
\* queued->downloading, and no other worker holds that row before or after:
\* no job is processed by two workers at the same time.
ClaimExclusive ==
    [][\A w \in Workers :
         (StepOf(w) /\ worker[w].row = 0 /\ worker'[w].row # 0) =>
            LET j == worker'[w].row IN
              /\ j \in DOMAIN jobs
              /\ jobs[j].status = "queued"
              /\ jobs'[j].status = "downloading"
              /\ \A v \in Workers \ {w} :
                    worker[v].row # j /\ worker'[v].row # j]_vars

\* two workers hold the two jobs, each claimed once
ClaimExclusiveWitness ==
    \E w, v \in Workers :
        /\ worker[w].row = 1 /\ worker[v].row = 2
        /\ 1 \in DOMAIN jobs /\ 2 \in DOMAIN jobs
        /\ jobs[1].status \in Active /\ jobs[2].status \in Active

PipelineGraph ==
    {<<"queued", "downloading">>, <<"downloading", "transcribing">>,
     <<"downloading", "error">>, <<"transcribing", "done">>,
     <<"transcribing", "error">>}

\* C3: every change of a job's status made by a worker is an edge of the
\* pipeline graph (in particular never downloading->done).
PipelineTransitions ==
    [][\A j \in DOMAIN jobs :
         (PipelineStep /\ j \in DOMAIN jobs' /\ jobs'[j].status # jobs[j].status)
            => <<jobs[j].status, jobs'[j].status>> \in PipelineGraph]_vars

\* C4: once a job's status is done, error or canceled, no worker write
\* changes it.
TerminalStays ==
    [][\A j \in DOMAIN jobs :
         (PipelineStep /\ j \in DOMAIN jobs' /\ jobs[j].status \in Terminal)
            => jobs'[j].status = jobs[j].status]_vars

\* C5: a progress report that finds the job canceled in the store writes no
\* progress and raises the abort signal; from then until the worker is back
\* at the top of its loop it writes nothing but the log, enters no phase and
\* leaves the status as it is.
CheckpointAborts ==
    [][\A w \in Workers :
         LET r == worker[w]
             j == r.row
         IN StepOf(w) =>
            /\ (r.pc \in {"dl", "tr"} /\ j \in DOMAIN jobs
                    /\ jobs[j].status = "canceled")
                  => worker'[w].pc \notin {"dl_write", "tr_write"}
            /\ (r.exc = "" /\ worker'[w].exc = "JobAborted") => jobs' = jobs
            /\ r.exc = "JobAborted" =>
                  /\ worker'[w].pc \in {"log_rd", "log_wr", "loop_exc", "claim"}
                  /\ worker'[w].pc # "claim" => worker'[w].exc = "JobAborted"
                  /\ DOMAIN jobs' = DOMAIN jobs
                  /\ \A k \in DOMAIN jobs :
                        /\ jobs'[k].status = jobs[k].status
                        /\ jobs'[k].progress = jobs[k].progress
                        /\ jobs'[k].error = jobs[k].error]_vars

\* a worker that read canceled at a checkpoint is back at the top of its
\* loop's handler and the job is still canceled
CheckpointAbortsWitness ==
    \E w \in Workers :
        /\ worker[w].exc = "JobAborted"
        /\ worker[w].pc = "loop_exc"
        /\ worker[w].row \in DOMAIN jobs
        /\ jobs[worker[w].row].status = "canceled"

\* C6: db_init turns every downloading or transcribing job into queued with
\* its progress unchanged, leaves every other job untouched, and runs before
\* any worker thread exists, so no job is active when the first claim is made.
CrashRecovery ==
    [][(stage = "down" /\ stage' # "down") =>
         /\ DOMAIN jobs' = DOMAIN jobs
         /\ \A j \in DOMAIN jobs :
               /\ jobs'[j].progress = jobs[j].progress
               /\ jobs[j].status \in Active =>
                     jobs'[j] = [jobs[j] EXCEPT !.status = "queued"]
               /\ jobs[j].status \notin Active => jobs'[j] = jobs[j]
               /\ jobs'[j].status \notin Active
         /\ \A w \in Workers : worker'[w].pc = "off"]_vars

\* after a restart, a requeued job that keeps the progress of its lost run
CrashRecoveryWitness ==
    /\ stage = "inited"
    /\ crashes = 1
    /\ \E j \in DOMAIN jobs :
          jobs[j].status = "queued" /\ jobs[j].progress > 0

\* the outbox rows that refer to job j
RowsOf(j) == {o \in DOMAIN outbox : outbox[o].job_id = j}

\* C7: once a worker is through with a job it brought to done, with
\* auto-delivery on the outbox holds one queued row per recipient for the
\* job, and with auto-delivery off it holds none and the log says so.
DeliveryEnqueued ==
    \A w \in Workers :
        (worker[w].pc = "log_wr" /\ worker[w].ret = "claim"
            /\ worker[w].msg \in {"email summary", "auto-send disabled"}
            /\ worker[w].row \in DOMAIN jobs) =>
          LET j == worker[w].row IN
            IF auto_send
            THEN /\ Cardinality(RowsOf(j)) = Len(RecList)
                 /\ \A o \in RowsOf(j) : outbox[o].status = "queued"
            ELSE /\ RowsOf(j) = {}
                 /\ worker[w].msg = "auto-send disabled"

\* C8: a job that is done has no fetched media file left on disk, and the
\* pipeline never unlinks an uploaded file.
MediaDeletionRule ==
    /\ \A j \in DOMAIN jobs :
          jobs[j].status = "done" => <<j, "dl">> \notin files
    /\ \A f \in unlinked : f[2] # "up"

\* C9: when the Downloader or the Transcriber raises e, the same step sets
\* status error and error = e; until the worker is back at the top of its
\* loop it then only writes the log and enters no later phase.
FailureSetsError ==
    [][\A w \in Workers :
         LET r == worker[w]
             j == r.row
         IN StepOf(w) =>
            /\ (r.exc = "" /\ worker'[w].exc \in Errs /\ j \in DOMAIN jobs) =>
                  /\ jobs'[j].status = "error"
                  /\ jobs'[j].error = worker'[w].exc
            /\ r.exc \in Errs =>
                  /\ worker'[w].pc \in {"log_rd", "log_wr", "loop_exc", "claim"}
                  /\ worker'[w].pc # "claim" => worker'[w].exc = r.exc
                  /\ DOMAIN jobs' = DOMAIN jobs
                  /\ \A k \in DOMAIN jobs :
                        /\ jobs'[k].status = jobs[k].status
                        /\ jobs'[k].progress = jobs[k].progress
                        /\ jobs'[k].error = jobs[k].error]_vars

\* the Transcriber raised and the job is in error with its message
FailureSetsErrorWitness ==
    \E w \in Workers :
        /\ worker[w].exc \in Errs
        /\ worker[w].msg = "transcription error"
        /\ worker[w].row \in DOMAIN jobs
        /\ jobs[worker[w].row].status = "error"
        /\ jobs[worker[w].row].error = worker[w].exc

\* a step taken by sender thread s (every sender step moves its pc)
SendStepOf(s) == sender'[s] # sender[s] /\ stage' = stage

\* C2: a sender that receives a row is the one whose update flipped it
\* queued->sending and no other sender holds it; while a sender holds a row,
\* no step of another sender claims it, hands it to the Mailer or updates it.
OutboxClaimExclusive ==
    [][\A s \in Senders :
         /\ (SendStepOf(s) /\ sender[s].item.id = 0 /\ sender'[s].item.id # 0) =>
               LET o == sender'[s].item.id IN
                 /\ o \in DOMAIN outbox
                 /\ outbox[o].status = "queued"
                 /\ outbox'[o].status = "sending"
                 /\ \A t \in Senders \ {s} : sender[t].item.id # o
         /\ sender[s].item.id # 0 =>
               LET o == sender[s].item.id IN
                 \A t \in Senders \ {s} :
                    SendStepOf(t) =>
                      /\ sender'[t].item.id # o
                      /\ calls'[o] = calls[o]
                      /\ o \in DOMAIN outbox =>
                            o \in DOMAIN outbox' /\ outbox'[o] = outbox[o]]_vars

\* two senders hold one row each, one of them about to call the Mailer
OutboxClaimExclusiveWitness ==
    \E s, t \in Senders :
        /\ sender[s].item.id = 1 /\ sender[t].item.id = 2
        /\ sender[s].pc = "send"
        /\ outbox[1].status = "sending" /\ outbox[2].status = "sending"

\* C10: a claim hands the sender the row's attempts as they were; when the
\* bucket denies, neither that step nor the requeue calls the Mailer, and
\* the requeue sets status queued with attempts equal to the pre-claim value.
DeferKeepsAttempts ==
    [][\A s \in Senders :
         LET it == sender[s].item IN
         SendStepOf(s) =>
            /\ (it.id = 0 /\ sender'[s].item.id # 0) =>
                  sender'[s].item.attempts = outbox[sender'[s].item.id].attempts
            /\ (sender[s].pc = "take_st" /\ sender'[s].pc = "defer") =>
                  calls' = calls /\ outbox' = outbox
            /\ sender[s].pc = "defer" =>
                  /\ calls' = calls
                  /\ it.id \in DOMAIN outbox =>
                        /\ outbox'[it.id].status = "queued"
                        /\ outbox'[it.id].attempts = it.attempts
                        /\ outbox'[it.id].attempts = outbox[it.id].attempts]_vars

\* a row that failed once and was then deferred by the rate limit
DeferKeepsAttemptsWitness ==
    \E o \in DOMAIN outbox :
        /\ outbox[o].status = "queued"
        /\ outbox[o].last_error = "rate-limit defer"
        /\ outbox[o].attempts = 1
        /\ calls[o] = 1

\* C11: when the bucket denies a claimed message, the requeue leaves the row's
\* send_after as it was before the claim, so the row is eligible at once.
DeferKeepsSendAfter ==
    [][\A s \in Senders :
         LET it == sender[s].item IN
         (SendStepOf(s) /\ sender[s].pc = "defer" /\ it.id \in DOMAIN outbox) =>
            /\ outbox'[it.id].send_after = it.send_after
            /\ outbox'[it.id].send_after <= now]_vars

\* the retry delay the k-th consecutive failure is said to give: 30, 60, 120,
\* ... capped at 3600
SaidDelay(k) == Min(RETRY_MAX_SEC, RETRY_BASE_SEC * Pow2(k - 1))

\* C12: after the k-th consecutive delivery failure of a message the delay
\* applied to send_after is within 10% of 30 * 2^(k-1) capped at 3600.
BackoffGrowth ==
    [][\A s \in Senders :
         LET it == sender[s].item IN
         (SendStepOf(s) /\ sender[s].pc = "fail" /\ it.id \in DOMAIN outbox) =>
            LET k == outbox'[it.id].attempts
                applied == outbox'[it.id].send_after - now
            IN /\ k = it.attempts + 1
               /\ 10 * (applied - SaidDelay(k)) <= SaidDelay(k)
               /\ 10 * (SaidDelay(k) - applied) <= SaidDelay(k)]_vars

\* C13: a bucket used by one caller starts with burst tokens; with no time
\* elapsed the first burst calls of take() return true and the next returns
\* false; tokens stay within [0, burst]; a permitted take leaves one token
\* less than the refilled amount and a denied take leaves the refilled amount.
BucketBurst ==
    /\ [](0 <= bucket.tokens /\ bucket.tokens <= 60 * bucket.burst)
    /\ [](takes.n = 0 => bucket.tokens = 60 * bucket.burst)
    /\ [][takes'.n = takes.n + 1 =>
            LET filled == Min(60 * bucket.burst,
                              bucket.tokens + (now - bucket.t) * bucket.rate)
                permitted == takes'.yes = takes.yes + 1
            IN /\ permitted => bucket'.tokens = filled - 60
               /\ ~permitted => takes'.yes = takes.yes /\ bucket'.tokens = filled
               /\ now = 0 => (permitted <=> takes.n < bucket.burst)]_vars

\* rate 60/min, burst 10, no time elapsed: eleven calls, ten of them permitted
BucketBurstWitness ==
    /\ bucket.rate = 60 /\ bucket.burst = 10
    /\ now = 0
    /\ takes.n = 11 /\ takes.yes = 10

\* C14: with several senders on the one bucket, the calls of take() that
\* returned true never exceed the tokens there were (the initial burst plus
\* what the elapsed time refills), and the token count is never negative.
TakeAtomic ==
    /\ 60 * takes.yes <= 60 * bucket.burst + now * bucket.rate
    /\ bucket.tokens >= 0

\* C15: once a job is deleted no outbox row refers to it.
DeleteCascades ==
    \A o \in DOMAIN outbox :
        outbox[o].job_id = NoJob \/ outbox[o].job_id \in DOMAIN jobs

\* C16: every enqueue adds one row under a fresh id and touches no other row,
\* also when an equal message is already there; the new row is queued with
\* attempts 0, no last_error and send_after equal to the time of the call.
EnqueueNoDedup ==
    [][nextOut' # nextOut =>
         /\ nextOut \notin DOMAIN outbox
         /\ DOMAIN outbox' = DOMAIN outbox \cup {nextOut}
         /\ \A o \in DOMAIN outbox : outbox'[o] = outbox[o]
         /\ outbox'[nextOut].status = "queued"
         /\ outbox'[nextOut].attempts = 0
         /\ outbox'[nextOut].last_error = NULL
         /\ outbox'[nextOut].send_after = now]_vars

\* two rows from two enqueues with the same arguments at the same time
EnqueueNoDedupWitness ==
    /\ 1 \in DOMAIN outbox /\ 2 \in DOMAIN outbox
    /\ outbox[1] = outbox[2]
    /\ outbox[1].status = "queued" /\ outbox[1].attempts = 0

\* the i-th name tried for a base slug: base, base-2, base-3, ...
Candidate(base, i) == IF i = 1 THEN base ELSE base \o <<"-">> \o str(i)

\* the slug is already a job's or a directory's
Present(slug) == (\E j \in DOMAIN jobs : jobs[j].slug = slug) \/ slug \in dirs

\* C17: no two jobs ever share a slug, a job's slug never changes, and the
\* slug a submission settles on is the first of base, base-2, base-3, ...
\* that is neither a job's slug nor a directory under the data dir; a job is
\* inserted under the slug its submission settled on.
SlugUnique ==
    /\ [](\A j, k \in DOMAIN jobs : j # k => jobs[j].slug # jobs[k].slug)
    /\ [][\A j \in DOMAIN jobs :
            j \in DOMAIN jobs' => jobs'[j].slug = jobs[j].slug]_vars
    /\ [][\A r \in Submitters :
            (req[r].pc = "idle" /\ req'[r].pc # "idle") =>
               \E i \in 1..(MaxJobs + MaxSubmit + 2) :
                  /\ req'[r].slug = Candidate(slugify(req'[r].name), i)
                  /\ ~Present(req'[r].slug)
                  /\ \A h \in 1..(i - 1) :
                        Present(Candidate(slugify(req'[r].name), h))]_vars
    /\ [][\A r \in Submitters :
            (req[r].pc # "idle" /\ req'[r].pc = "idle" /\ nextJob' # nextJob) =>
               /\ jobs'[nextJob].slug = req[r].slug
               /\ jobs'[nextJob].name = req[r].name]_vars

\* "My T" submitted twice: my-t, then my-t-2
SlugUniqueWitness ==
    /\ 1 \in DOMAIN jobs /\ 2 \in DOMAIN jobs
    /\ jobs[1].name = <<"M", "y", " ", "T">>
    /\ jobs[2].name = <<"M", "y", " ", "T">>
    /\ jobs[1].slug = <<"m", "y", "-", "t">>
    /\ jobs[2].slug = <<"m", "y", "-", "t", "-", "2">>

\* C18: while a job stays downloading, and while it stays transcribing, every
\* progress value a worker writes for a report is at least the value before
\* it, whatever fractions the Downloader or the Transcriber reports.
ProgressMonotone ==
    [][\A w \in Workers :
         LET j == worker[w].row IN
         (StepOf(w) /\ worker[w].pc \in {"dl_write", "tr_write"}
             /\ j \in DOMAIN jobs /\ j \in DOMAIN jobs'
             /\ jobs[j].status \in Active
             /\ jobs'[j].status = jobs[j].status)
           => jobs'[j].progress >= jobs[j].progress]_vars

\* C19: progress is 0 at the moment a claim makes a job downloading, also for
\* a job requeued by crash recovery; it is 100 whenever the status is done;
\* it is always within [0, 100].
ProgressBounds ==
    /\ [](\A j \in DOMAIN jobs :
            /\ 0 <= jobs[j].progress /\ jobs[j].progress <= 100
            /\ jobs[j].status = "done" => jobs[j].progress = 100)
    /\ [][\A j \in DOMAIN jobs :
            (j \in DOMAIN jobs' /\ jobs[j].status # "downloading"
                /\ jobs'[j].status = "downloading")
              => jobs'[j].progress = 0]_vars

\* C20: a worker that found the uploaded file of its job never runs the
\* Downloader, and while that job is transcribing its progress is within
\* [50, 100], 50 from the moment it enters transcribing.
UploadShortcut ==
    \A w \in Workers :
        worker[w].hasUp =>
          /\ worker[w].pc \notin {"dl", "dl_write"}
          /\ (worker[w].row \in DOMAIN jobs
                /\ jobs[worker[w].row].status = "transcribing")
               => /\ 50 <= jobs[worker[w].row].progress
                  /\ jobs[worker[w].row].progress <= 100

\* C21: a row's attempts never decrease; they change only in the step that
\* records a failed call of the Mailer, which adds exactly one; so they never
\* exceed the times the row was handed to the Mailer.
AttemptsGrow ==
    /\ [](\A o \in DOMAIN outbox : outbox[o].attempts <= calls[o])
    /\ [][\A o \in DOMAIN outbox :
            o \in DOMAIN outbox' =>
              /\ outbox'[o].attempts >= outbox[o].attempts
              /\ outbox'[o].attempts # outbox[o].attempts =>
                    \E s \in Senders :
                       /\ SendStepOf(s) /\ sender[s].pc = "fail"
                       /\ sender[s].item.id = o]_vars
    /\ [][\A s \in Senders :
            LET it == sender[s].item IN
            (SendStepOf(s) /\ sender[s].pc = "fail" /\ it.id \in DOMAIN outbox)
              => outbox'[it.id].attempts = outbox[it.id].attempts + 1]_vars

\* a row that failed twice, with a rate-limit defer somewhere on its way
AttemptsGrowWitness ==
    \E o \in DOMAIN outbox :
        /\ outbox[o].attempts = 2
        /\ calls[o] = 2
        /\ outbox[o].status = "queued"

\* C22: every write to a row's send_after puts a value there that is at
\* least the value it replaces, for every jitter and with a clock that never
\* runs backwards; a requeue by a sender puts it after the current time.
SendAfterForward ==
    /\ [][now' >= now]_vars
    /\ [][\A o \in DOMAIN outbox :
            o \in DOMAIN outbox' =>
               outbox'[o].send_after >= outbox[o].send_after]_vars
    /\ [][\A s \in Senders :
            LET it == sender[s].item IN
            (SendStepOf(s) /\ sender[s].pc \in {"fail", "defer"}
                /\ it.id \in DOMAIN outbox)
              => /\ outbox'[it.id].send_after > now
                 /\ outbox'[it.id].send_after > outbox[it.id].send_after]_vars

\* a second failure, at time 60 with the jitter at its lowest: 60 + 120 - 12
SendAfterForwardWitness ==
    \E o \in DOMAIN outbox :
        /\ outbox[o].attempts = 2
        /\ outbox[o].last_error = "boom"
        /\ outbox[o].send_after = TickSec + 4 * RETRY_BASE_SEC
                                     - (4 * RETRY_BASE_SEC) \div 10

\* a row in sending that no sender thread holds
Orphan(o) ==
    /\ outbox[o].status = "sending"
    /\ \A s \in Senders : sender[s].item.id # o

\* C24: a row that is in sending when the process dies is held by no sender
\* afterwards, and from then on no step changes it, claims it or hands it to
\* the Mailer: neither start-up nor a sender returns it to queued.
StuckInSending ==
    /\ [][crashes' # crashes =>
            \A o \in DOMAIN outbox :
               outbox[o].status = "sending" =>
                  /\ o \in DOMAIN outbox' /\ outbox'[o] = outbox[o]
                  /\ \A s \in Senders : sender'[s].item.id # o]_vars
    /\ [][\A o \in DOMAIN outbox :
            Orphan(o) =>
               /\ o \in DOMAIN outbox' /\ outbox'[o] = outbox[o]
               /\ \A s \in Senders : sender'[s].item.id # o
               /\ calls'[o] = calls[o]]_vars

\* after a restart the senders have delivered the second message while the
\* first, which was being sent when the process died, is still in sending
StuckInSendingWitness ==
    /\ crashes = 1 /\ stage = "running"
    /\ 1 \in DOMAIN outbox /\ 2 \in DOMAIN outbox
    /\ Orphan(1)
    /\ outbox[2].status = "sent"
    /\ \A s \in Senders : sender[s].pc = "claim"

\* C27: when the Mailer returns normally, one step sets the row's status to
\* sent and leaves its attempts, last_error and send_after (and every other
\* row) as they were, and appends one "sent" entry to the log of the
\* message's job if it has one and that job still exists; no other job
\* changes.
SendSuccess ==
    [][\A s \in Senders :
         LET it == sender[s].item IN
         (SendStepOf(s) /\ sender[s].pc = "ok" /\ it.id \in DOMAIN outbox) =>
            /\ outbox' = [outbox EXCEPT ![it.id].status = "sent"]
            /\ outbox'[it.id].attempts = it.attempts
            /\ outbox'[it.id].last_error = it.last_error
            /\ outbox'[it.id].send_after = it.send_after
            /\ IF it.job_id # NoJob /\ it.job_id \in DOMAIN jobs
               THEN jobs' = [jobs EXCEPT
                               ![it.job_id].log = Append(@, "email sent"),
                               ![it.job_id].updated_at = now]
               ELSE jobs' = jobs]_vars

\* a message of job 1 was deferred, then sent, and the job's log says so
SendSuccessWitness ==
    \E o \in DOMAIN outbox :
        /\ outbox[o].status = "sent"
        /\ outbox[o].last_error = "rate-limit defer"
        /\ outbox[o].job_id = 1
        /\ 1 \in DOMAIN jobs
        /\ Len(jobs[1].log) > 0
        /\ jobs[1].log[Len(jobs[1].log)] = "email sent"

\* C28: a rate-limit defer is not recorded as a failure: the requeue of a
\* denied message leaves the row's last_error as it was and appends nothing
\* to any job's log.
DeferNotFailure ==
    [][\A s \in Senders :
         LET it == sender[s].item IN
         (SendStepOf(s) /\ sender[s].pc = "defer" /\ it.id \in DOMAIN outbox) =>
            /\ outbox'[it.id].last_error = outbox[it.id].last_error
            /\ jobs' = jobs]_vars

\* C29: a claim takes only a row that is queued with send_after <= now, and
\* a message is handed to the Mailer only when its send_after has been
\* reached; a row requeued by a failure is not claimed before its new
\* send_after.
NotBeforeSendAfter ==
    [][\A s \in Senders :
         LET it == sender[s].item IN
         SendStepOf(s) =>
            /\ (it.id = 0 /\ sender'[s].item.id # 0) =>
                  LET o == sender'[s].item.id IN
                    /\ outbox[o].status = "queued"
                    /\ outbox[o].send_after <= now
            /\ (sender[s].pc = "send" /\ it.id \in DOMAIN outbox) =>
                  /\ it.send_after <= now
                  /\ outbox[it.id].send_after <= now]_vars

\* a message that failed at time 0 is handed to the Mailer again at time 60,
\* its send_after (54 or 60) reached
NotBeforeSendAfterWitness ==
    \E s \in Senders :
        /\ sender[s].pc = "send"
        /\ sender[s].item.attempts = 1
        /\ sender[s].item.send_after > 0
        /\ sender[s].item.send_after <= now
        /\ calls[sender[s].item.id] = 1

\* C23: a failed send returns the row to queued with a later send_after
\* whatever its attempts count; no row ever has status error, and no row ever
\* leaves the outbox or changes its recipient.
RetryForever ==
    /\ [](\A o \in DOMAIN outbox :
            outbox[o].status \in {"queued", "sending", "sent"})
    /\ [][\A o \in DOMAIN outbox :
            /\ o \in DOMAIN outbox'
            /\ outbox'[o].to_addr = outbox[o].to_addr
            /\ outbox'[o].job_id = outbox[o].job_id]_vars
    /\ [][\A s \in Senders :
            LET it == sender[s].item IN
            (SendStepOf(s) /\ sender[s].pc = "fail" /\ it.id \in DOMAIN outbox)
              => /\ outbox'[it.id].status = "queued"
                 /\ outbox'[it.id].send_after > now
                 /\ outbox'[it.id].send_after > outbox[it.id].send_after]_vars

\* the eleventh failure of a message: queued again, an hour (less the jitter)
\* ahead
RetryForeverWitness ==
    \E o \in DOMAIN outbox :
        /\ outbox[o].attempts = MaxAttempts + 1
        /\ outbox[o].status = "queued"
        /\ calls[o] = MaxAttempts + 1
        /\ outbox[o].send_after = RETRY_MAX_SEC - RETRY_MAX_SEC \div 10

\* C26: a claim hands over the row's attempts as they are; when the Mailer
\* raises, one step sets the row's attempts to that value plus one, its
\* status to queued, its last_error to the first 500 characters of the error
\* text and its send_after to now plus min(3600, 30 * 2^min(attempts, 8))
\* within 10%, leaves every other row alone, and appends one entry to the log
\* of the message's job if it has one and that job still exists.
FailureTransition ==
    [][\A s \in Senders :
         LET it == sender[s].item IN
         SendStepOf(s) =>
            /\ (it.id = 0 /\ sender'[s].item.id # 0) =>
                  sender'[s].item.attempts = outbox[sender'[s].item.id].attempts
            /\ (sender[s].pc = "fail" /\ it.id \in DOMAIN outbox) =>
                  LET a == it.attempts + 1
                      d == Min(RETRY_MAX_SEC, RETRY_BASE_SEC * Pow2(Min(a, 8)))
                      m == sender[s].msg
                      r == outbox'[it.id]
                  IN /\ it.attempts = outbox[it.id].attempts
                     /\ r.attempts = a
                     /\ r.status = "queued"
                     /\ r.last_error = SubSeq(m, 1, Min(Len(m), 500))
                     /\ 10 * (r.send_after - (now + d)) <= d
                     /\ 10 * ((now + d) - r.send_after) <= d
                     /\ \A o \in DOMAIN outbox \ {it.id} :
                           outbox'[o] = outbox[o]
                     /\ IF it.job_id # NoJob /\ it.job_id \in DOMAIN jobs
                        THEN jobs' = [jobs EXCEPT
                                        ![it.job_id].log = Append(@, "email failed"),
                                        ![it.job_id].updated_at = now]
                        ELSE jobs' = jobs]_vars

\* a first failure with a 512-character error text: 500 characters are
\* recorded and the job's log has the entry
FailureTransitionWitness ==
    \E o \in DOMAIN outbox :
        /\ outbox[o].attempts = 1
        /\ outbox[o].status = "queued"
        /\ Len(outbox[o].last_error) = 500
        /\ outbox[o].job_id = 1
        /\ 1 \in DOMAIN jobs
        /\ jobs[1].log = Append(DoneJob.log, "email failed")

FifoClaim ==
    /\ [][\A w \in Workers :
            (StepOf(w) /\ worker[w].row = 0 /\ worker'[w].row # 0) =>
               LET j == worker'[w].row IN
                 /\ j \in DOMAIN jobs /\ jobs[j].status = "queued"
                 /\ \A k \in DOMAIN jobs : jobs[k].status = "queued" => j <= k
                 /\ worker'[w].rslug = jobs[j].slug
                 /\ worker'[w].rmedia = jobs[j].media_path]_vars
    /\ [][\A s \in Senders :
            (SendStepOf(s) /\ sender[s].item.id = 0
                /\ sender'[s].item.id # 0) =>
               LET o == sender'[s].item.id IN
                 /\ o \in DOMAIN outbox
                 /\ outbox[o].status = "queued" /\ outbox[o].send_after <= now
                 /\ \A k \in DOMAIN outbox :
                       (outbox[k].status = "queued"
                          /\ outbox[k].send_after <= now) => o <= k
                 /\ sender'[s].item = [id |-> o] @@ outbox[o]]_vars

\* the second job is claimed, the first being past queued, and the second
\* message is claimed while the first waits for its retry time
FifoClaimWitness ==
    /\ 1 \in DOMAIN jobs /\ jobs[1].status \in Terminal
    /\ worker[1].row = 2 /\ worker[1].msg = "claimed"
    /\ 1 \in DOMAIN outbox
    /\ outbox[1].status = "queued" /\ outbox[1].send_after > now
    /\ sender[1].item.id = 2 /\ sender[1].pc = "take"

SentOnce ==
    /\ [][\A o \in DOMAIN outbox :
            outbox[o].status = "sent" =>
               /\ o \in DOMAIN outbox' /\ outbox'[o] = outbox[o]
               /\ calls'[o] = calls[o]
               /\ \A s \in Senders : sender'[s].item.id # o]_vars
    /\ [][\A s \in Senders :
            LET it == sender[s].item IN
            (SendStepOf(s) /\ sender[s].pc = "ok" /\ it.id \in DOMAIN outbox) =>
               /\ outbox[it.id].status = "sending"
               /\ outbox'[it.id].status = "sent"]_vars

\* a message that failed once and was delivered by its second call of the
\* Mailer, with both senders back at the top of their loops
SentOnceWitness ==
    \E o \in DOMAIN outbox :
        /\ outbox[o].status = "sent"
        /\ outbox[o].attempts = 1
        /\ calls[o] = 2
        /\ \A s \in Senders : sender[s].pc = "claim"

\* C35: error is written only together with status error: a step that
\* changes a job's error leaves the job in error with the collaborator's
\* message, every job with an error has status error, and every job that is
\* queued, downloading, transcribing or done has none.
ErrorOnlyOnFailure ==
    /\ [](\A j \in DOMAIN jobs :
            /\ jobs[j].error # NULL => jobs[j].status = "error"
            /\ jobs[j].status \in {"queued", "downloading", "transcribing", "done"}
                  => jobs[j].error = NULL)
    /\ [][\A j \in DOMAIN jobs \cap DOMAIN jobs' :
            jobs'[j].error # jobs[j].error =>
               /\ jobs'[j].status = "error"
               /\ jobs'[j].error \in Errs]_vars

\* one job failed and carries the message, the other was completed without
\* one
ErrorOnlyOnFailureWitness ==
    /\ 1 \in DOMAIN jobs /\ 2 \in DOMAIN jobs
    /\ jobs[1].status = "error" /\ jobs[1].error \in Errs
    /\ jobs[2].status = "done" /\ jobs[2].error = NULL

DeletedStaysDeleted ==
    /\ [][\A w \in Workers :
            LET wr == worker[w] IN
            (StepOf(w) /\ wr.row # 0 /\ wr.row \notin DOMAIN jobs) =>
               /\ jobs' = jobs
               /\ worker'[w].pc \notin {"up_set", "dl_write", "tr_write"}]_vars
    /\ [][\A w \in Workers :
            StepOf(w) =>
               \A j \in DOMAIN jobs :
                  j \notin {worker[w].row, worker'[w].row} =>
                     j \in DOMAIN jobs' /\ jobs'[j] = jobs[j]]_vars
    /\ [][\A j \in DOMAIN jobs' \ DOMAIN jobs :
            j = nextJob /\ nextJob' = nextJob + 1]_vars

\* a worker abandoned a deleted job at a checkpoint and is writing its log
\* entry, while the other job's row is in the store
DeletedStaysDeletedWitness ==
    \E w \in Workers :
        /\ worker[w].row # 0
        /\ worker[w].row \notin DOMAIN jobs
        /\ worker[w].exc = "JobAborted"
        /\ worker[w].pc = "log_rd"
        /\ \E j \in DOMAIN jobs : j # worker[w].row

\* ------------------------------------------- Worker.ensure under requests
EnsureStep(r) ==
    \/ ensure_lock(r)
    \/ ensure_count(r)
    \/ ensure_start(r)

\* request threads call Worker.ensure() side by side while worker threads end
\* on a store that cannot be opened
NextEnsure ==
    \/ db_init
    \/ worker_ensure
    \/ mailer_ensure
    \/ Crash
    \/ \E w \in Workers : thread_dies(w)
    \/ \E r \in Submitters : EnsureStep(r)

SpecEnsure == Init /\ [][NextEnsure]_vars

\* C39: the number of live worker threads never exceeds the configured
\* concurrency and is the number of running loops; an ensure() counts
\* concurrency minus the live threads, and starts exactly the number it
\* counted.
PoolBound ==
    /\ [](pool.threads <= Concurrency)
    /\ [](pool.threads = Cardinality({w \in Workers : worker[w].pc # "off"}))
    /\ [][\A r \in Submitters :
            /\ (req[r].pc = "ensure" /\ req'[r].pc = "ensure_start") =>
                  req'[r].need = Concurrency - pool.threads
            /\ (req[r].pc = "ensure_start" /\ req'[r].pc = "idle"
                   /\ stage' = stage) =>
                  /\ pool'.threads = pool.threads + req[r].need
                  /\ Cardinality({w \in Workers :
                         worker[w].pc = "off" /\ worker'[w].pc = "claim"})
                       = req[r].need]_vars

\* one request thread is about to start the two threads it found missing
\* while the other waits for the lock
PoolBoundWitness ==
    \E r \in Submitters :
        /\ req[r].pc = "ensure_start"
        /\ req[r].need = Concurrency
        /\ pool.lock = r
        /\ pool.threads = 0
        /\ \A q \in Submitters \ {r} : req[q].pc = "idle"

\* ------------------------------------------------- manual send by request
SendMailStep(r) ==
    \/ \E j \in 1..MaxJobs : send_mail(r, j)
    \/ \E sent \in BOOLEAN : sm_send(r, sent)
    \/ sm_summary(r)
    \/ sm_log_read(r)
    \/ sm_log_write(r)

\* start-up on a store an earlier run left with one finished job
InitManual ==
    /\ stage = "down"
    /\ crashes = 0
    /\ auto_send = FALSE
    /\ jobs = <<DoneJob>>
    /\ nextJob = 2
    /\ files = {}
    /\ dirs = {DoneJob.slug}
    /\ req = [r \in Submitters |-> IdleReq]
    /\ pool = NoPool
    /\ worker = [w \in Workers |-> IdleWorker]
    /\ outbox = <<>>
    /\ nextOut = 1
    /\ sender = [s \in Senders |-> IdleSender]
    /\ now = 0
    /\ bucket = NoBucket
    /\ takes = NoTakes
    /\ calls = <<>>
    /\ unlinked = {}
    /\ mails = {}

\* one worker, jobs submitted on request thread 1, deleted at any time, and
\* mailed on request by thread 2
NextManual ==
    \/ db_init
    \/ worker_ensure
    \/ mailer_ensure
    \/ create_job(1, DefaultName)
    \/ create_job_insert(1)
    \/ \E j \in 1..MaxJobs : delete_job(j)
    \/ LoopStep(1)
    \/ SendMailStep(2)

SpecManual == InitManual /\ [][NextManual]_vars

IsPrefix(a, b) == Len(a) <= Len(b) /\ SubSeq(b, 1, Len(a)) = a

\* C31: the log of a job only grows by a suffix: after every step, the log a
\* job had before is a prefix of the log it has.
LogAppendOnly ==
    [][\A j \in DOMAIN jobs \cap DOMAIN jobs' :
          IsPrefix(jobs[j].log, jobs'[j].log)]_vars

\* C32: an append_log that finds no row raises nothing and writes nothing:
\* the worker and the request thread go on at the point they logged from,
\* with no exception and the store as it was.
MissingRowNoop ==
    /\ [][\A w \in Workers :
            (worker[w].pc = "log_rd" /\ worker[w].row \notin DOMAIN jobs
                /\ worker'[w] # worker[w] /\ stage' = stage) =>
               /\ worker'[w].pc = worker[w].ret
               /\ worker'[w].exc \in {"", worker[w].exc}
               /\ jobs' = jobs]_vars
    /\ [][\A r \in Submitters :
            (req[r].pc = "sm_log_rd" /\ req[r].job \notin DOMAIN jobs
                /\ req'[r] # req[r] /\ stage' = stage) =>
               /\ req'[r].pc = req[r].ret
               /\ req'[r].exc = ""
               /\ jobs' = jobs]_vars

\* C33: every step that changes a job row leaves that row's updated_at at the
\* time of the change.
StampRefreshed ==
    [][\A j \in DOMAIN jobs \cap DOMAIN jobs' :
          jobs'[j] # jobs[j] => jobs'[j].updated_at = now]_vars

\* ------------------------------------------------------- delivery, fairly
\* the Mailer collaborator on a message it was handed k times before: it
\* raises for at most MaxFails calls, then delivers
Outcomes(k) == IF k < MaxFails THEN Errs \cup {NULL} ELSE {NULL}

LiveStep(s) ==
    \/ claim(s)
    \/ take_refill(s)
    \/ take_store(s)
    \/ take_consume(s)
    \/ defer(s)
    \/ /\ sender[s].pc = "send"
       /\ \E e \in Outcomes(calls[sender[s].item.id]) : send_email(s, e)
    \/ ok(s)
    \/ send_failed(s)

\* seconds after which a bucket holding v units and refilled now is full
Full(b, v) == ((60 * b.burst - v) + b.rate - 1) \div b.rate

\* The clock advances by d seconds, without a last tick.  Every time the
\* store and the threads hold is kept relative to the present (now stays):
\* send_after and the bucket's refill time move d seconds into the past.  The
\* code compares send_after only with the present, and a refill time only
\* enters through min(burst, tokens + (now - t) * rate), so a send_after
\* that is due and a refill time old enough to fill the bucket stay where
\* they are.
Elapse(d) ==
    /\ stage = "running"
    /\ outbox' = [o \in DOMAIN outbox |->
                    [outbox[o] EXCEPT !.send_after = Max(@ - d, now)]]
    /\ bucket' = [bucket EXCEPT
                    !.t = Max(@ - d, now - Full(bucket, bucket.tokens))]
    /\ sender' = [s \in Senders |->
          [sender[s] EXCEPT
             !.tn = IF sender[s].pc = "take_st"
                    THEN Max(@ - d, now - Full(bucket, sender[s].v))
                    ELSE @,
             !.item = IF @ = NoItem THEN @
                      ELSE [@ EXCEPT !.send_after = Max(@ - d, now)]]]
    /\ UNCHANGED <<procVars, jobs, nextJob, files, dirs, req, worker, nextOut,
                   now, takes, calls, unlinked, mails>>

NextLive ==
    \/ db_init
    \/ worker_ensure
    \/ mailer_ensure
    \/ Elapse(TickSec)
    \/ \E to \in Addrs : enqueue_email(NoJob, to)
    \/ \E s \in Senders : LiveStep(s)

\* start-up completes, time passes, every sender thread keeps running
Fairness ==
    /\ WF_vars(db_init)
    /\ WF_vars(worker_ensure)
    /\ WF_vars(mailer_ensure)
    /\ WF_vars(Elapse(TickSec))
    /\ \A s \in Senders : WF_vars(LiveStep(s))

SpecLive == InitLoops /\ [][NextLive]_vars /\ Fairness

====
